---- MODULE Spec2Model ----
(***************************************************************************)
(* The video screenshot tool: a React component that samples a video every *)
(* 0.4 s, scores each sampled frame against the last captured one and      *)
(* keeps the frames that changed.  The repository holds three revisions of *)
(* the component:                                                          *)
(*   src/src/App.jsx      groups the captures into flows (a new flow on a  *)
(*                        hard change), captures on every diff > 3;        *)
(*   src/unnamed/part_001 flat list of captures, burst hysteresis,         *)
(*                        progress bar;                                    *)
(*   src/unnamed/part_000 as part_001, without the progress bar.           *)
(* The variable "file" says which revision is running.  The state that     *)
(* only the page layout reads (videoFile, videoInfo, isUploading) is left  *)
(* out.                                                                    *)
(*                                                                         *)
(* Time is counted in tenths of a second (0.4 s = 4, 0.3 s = 3, -10 s =    *)
(* -100).  The difference score is a fraction, kept as numerator and       *)
(* denominator and compared by cross-multiplication.                       *)
(***************************************************************************)
EXTENDS Integers, Sequences, FiniteSets, TLC

VARIABLES
    file,           \* the revision of the component that is running
    library,        \* which set of files the user can pick in the file dialog
    videoUrl,       \* useState: the uploaded video (NoVideo = null)
    videoLoaded,    \* useState: metadata of the video is loaded
    flows,          \* useState (App.jsx): the published flows
    screenshots,    \* useState (part_000, part_001): the published captures
    isProcessing,   \* useState
    progress,       \* useState (App.jsx, part_001)
    status,         \* useState: status / processingStatus
    shown,          \* <video>: the frame the element presents ("none" = no data)
    seeking,        \* <video>: target of the seek in progress, NoSeek if none
    seekedQueue,    \* <video>: targets of the queued 'seeked' events, in order
    stale,          \* how many of the queued events were queued before the pending wait began
    canvas,         \* the hidden detection canvas: the image last drawn on it
    pc,             \* processVideo: "idle", or "wait" while suspended in await
    wait,           \* waitForSeek: what can resolve the pending promise
    timestamps,     \* processVideo: const timestamps
    i,              \* processVideo: loop index (0-based)
    lastFrame,      \* processVideo: let lastFrame (Null = null)
    lastCaptureTs,  \* processVideo: let lastCaptureTs
    currentFlow,    \* processVideo (App.jsx): let currentFlow
    allFlows,       \* processVideo (App.jsx): const allFlows
    captured,       \* processVideo (part_000, part_001): const captured
    changeBurst,    \* processVideo (part_000, part_001): let changeBurst
    runsLeft,       \* how many more runs the user starts in this session
    trace,          \* history: per tick of the run, the image drawn, the score and the decision
    emitted,        \* history: the captures emitted in the run, in order
    timeouts,       \* history: how many waits of the run ended by their timeout
    prev,           \* history: the run before this one, kept while this run draws the same images
    saved           \* saveAs: the archive downloaded of the result on display

vars == <<file, library, videoUrl, videoLoaded, flows, screenshots, isProcessing,
          progress, status, shown, seeking, seekedQueue, stale, canvas, pc, wait,
          timestamps, i, lastFrame, lastCaptureTs, currentFlow, allFlows,
          captured, changeBurst, runsLeft, trace, emitted, timeouts, prev, saved>>

uiVars  == <<videoUrl, videoLoaded, flows, screenshots, isProcessing, progress, status>>
runVars == <<pc, wait, timestamps, i, lastFrame, lastCaptureTs, currentFlow,
             allFlows, captured, changeBurst, runsLeft, trace, emitted, timeouts, prev>>

----------------------------------------------------------------------------
(* Bounds of the model *)

MaxDuration == 9        \* longest video of the general library, in tenths of a second
MaxRuns     == 2        \* runs started per session
PixelCount  == 40       \* pixels of the detection canvas (videoWidth/4 * videoHeight/4)

(* Program constants *)

STEP          == 4      \* t += 0.4
MIN_GAP       == 3      \* ts - lastCaptureTs > 0.3
HARD          == 6      \* diff > 6
SOFT          == 3      \* diff > 3
LOW           == 2      \* diff < 2
STRIDE        == 20     \* i += 20
FIRST_FLOW_ID == 1      \* { id: 1, screens: [] }
NEVER         == -100   \* let lastCaptureTs = -10

App      == "App.jsx"
Part001  == "part_001"
Part000  == "part_000"
Revisions == {App, Part001, Part000}
HasFlows(f)    == f = App
HasProgress(f) == f \in {App, Part001}

Null   == <<>>          \* lastFrame = null
NoSeek == -1

----------------------------------------------------------------------------
(* Images: a frame of the video is an image of uniform colour, named by a  *)
(* string.  "none" is the empty (transparent black) canvas.                *)

Colour(img) ==
    CASE img = "none"   -> <<0, 0, 0>>
      [] img = "black"  -> <<0, 0, 0>>
      [] img = "gray1"  -> <<1, 1, 1>>
      [] img = "red10"  -> <<10, 0, 0>>
      [] img = "gray3"  -> <<3, 3, 3>>
      [] img = "gray4"  -> <<4, 4, 4>>
      [] img = "gray5"  -> <<5, 5, 5>>
      [] img = "gray8"  -> <<8, 8, 8>>
      [] img = "gray9"  -> <<9, 9, 9>>

Abs(x) == IF x < 0 THEN -x ELSE x

(* g[j] = 0.299 * d[i] + 0.587 * d[i + 1] + 0.114 * d[i + 2], stored in a  *)
(* Uint8ClampedArray: rounded to the nearest integer (ties to even) and    *)
(* clamped to 0..255.                                                      *)
luma(c) ==
    LET x == 299 * c[1] + 587 * c[2] + 114 * c[3]
        q == x \div 1000
        r == x % 1000
        n == IF r < 500 THEN q
             ELSE IF r > 500 THEN q + 1
             ELSE IF q % 2 = 0 THEN q ELSE q + 1
    IN  IF n > 255 THEN 255 ELSE n

toGray(img) == [j \in 1..PixelCount |-> luma(Colour(img))]

(* diffScore: sum of |a[i] - b[i]| for i = 0, 20, 40, ... < a.length,      *)
(* divided by a.length / 20.  The quotient is kept as a fraction.          *)
RECURSIVE diffLoop(_, _, _)
diffLoop(a, b, k) ==
    IF k >= Len(a) THEN 0
    ELSE Abs(a[k + 1] - b[k + 1]) + diffLoop(a, b, k + STRIDE)

diffScore(a, b) == [num |-> diffLoop(a, b, 0) * STRIDE, den |-> Len(a)]

Zero == [num |-> 0, den |-> 1]          \* let diff = 0
GT(d, k) == d.num > k * d.den           \* diff > k
LT(d, k) == d.num < k * d.den           \* diff < k

(* fmt: `${Math.floor(s / 60)}:${Math.floor(s % 60).toString().padStart(2, '0')}` *)
(* as <<minutes, tens digit of the seconds, ones digit of the seconds>>.   *)
fmt(ts) ==
    LET sec == (ts \div 10) % 60
    IN  <<ts \div 600, sec \div 10, sec % 10>>

(* exportFrame: a new canvas with the frame the video presents, encoded *)
exportFrame(img) == <<"jpeg", img>>

(* faulty variant: the timestamp is stored in whole seconds *)
MkScreen_Floor(ts, img) ==
    [timestamp |-> (ts \div 10) * 10, formattedTime |-> fmt(ts), dataUrl |-> exportFrame(img)]

MkScreen(ts, img) ==
    [timestamp |-> ts, formattedTime |-> fmt(ts), dataUrl |-> exportFrame(img)]

(* for (let t = 0; t < video.duration; t += 0.4) timestamps.push(t) *)
RECURSIVE tsLoop(_, _)
tsLoop(t, duration) ==
    IF t < duration THEN <<t>> \o tsLoop(t + STEP, duration) ELSE <<>>

Timestamps(duration) == tsLoop(0, duration)

(* Math.round((i / timestamps.length) * 100) *)
Percent(k, n) == (200 * k + n) \div (2 * n)

----------------------------------------------------------------------------
(* Video files *)

NoVideo == [type |-> "none", duration |-> 0, frames |-> <<>>]

RECURSIVE SeqsOf(_, _)
SeqsOf(S, n) ==
    IF n = 0 THEN {<<>>}
    ELSE {<<x>> \o s : x \in S, s \in SeqsOf(S, n - 1)}

GeneralImages == {"black", "red10", "gray8"}

Video(d, fr) == [type |-> "video", duration |-> d, frames |-> fr]

(* the durations at a sampling instant and just after one: the durations  *)
(* between two of them sample the same timestamps                         *)
GeneralDurations == {d \in 0..MaxDuration : d % STEP \in {0, 1}}

GeneralVideos ==
    UNION {{Video(d, fr) : fr \in SeqsOf(GeneralImages, Len(Timestamps(d)))}
           : d \in GeneralDurations}

NotAVideo == [type |-> "text", duration |-> 0, frames |-> <<>>]

(* the videos of the general library with two kinds of frame *)
TwoToneVideos == {v \in GeneralVideos : \A k \in DOMAIN v.frames : v.frames[k] \in {"black", "gray8"}}

(* The videos of the scenarios.                                            *)
(*   B: constant content with one change at t = 2.0 that scores 8.         *)
(*   C: 4 s of content whose score against the baseline alternates 4, 1,   *)
(*      4, 1, ... on successive ticks.  The baseline is the last captured  *)
(*      frame, so the content that gives this score stream depends on what *)
(*      the revision captures: CApp gives it in App.jsx, CBurst in         *)
(*      part_000 and part_001.                                             *)
Rep(x, n) == [k \in 1..n |-> x]

ScenarioB == Video(28, Rep("black", 5) \o Rep("gray8", 2))
ScenarioCApp ==
    Video(40, <<"black", "gray4", "gray3", "black", "gray1",
                "gray4", "gray3", "black", "gray1", "gray4">>)
ScenarioCBurst ==
    Video(40, <<"black", "gray4", "gray5", "gray1", "black",
                "gray4", "gray5", "gray1", "black", "gray4">>)

(*   Zip: in App.jsx a result of two flows with 2 and 3 captures.           *)
ScenarioZip == Video(20, <<"gray4", "black", "gray8", "gray4", "black">>)

ScenarioVideos == {ScenarioB, ScenarioCApp, ScenarioCBurst, ScenarioZip}

(* the frame of video v at time ts (a seek past the end lands on the last frame) *)
FrameAt(v, ts) ==
    LET k == (ts \div STEP) + 1
    IN  IF Len(v.frames) = 0 THEN "none"
        ELSE IF k > Len(v.frames) THEN v.frames[Len(v.frames)]
        ELSE v.frames[k]

----------------------------------------------------------------------------
(* Initial state: the component as first rendered *)

NoStatus       == [kind |-> "", n |-> 0]                \* ''
Analyzing      == [kind |-> "analyzing", n |-> 0]       \* 'Analyzing UI changes...'
Captured(n)    == [kind |-> "captured", n |-> n]        \* (tick mark) ${n} flows captured

NoWait == [listener |-> FALSE, timer |-> FALSE]

(* no run before this one, or one that drew other images *)
NoRun == [ran |-> FALSE, trace |-> <<>>, emitted |-> <<>>, flows |-> <<>>, screenshots |-> <<>>]

(* the result on display was not downloaded *)
NoArchive == [name |-> "", folders |-> {}, files |-> <<>>]

(* faulty variant: no fallback timer *)
waitForSeek_NoTimer == [listener |-> TRUE, timer |-> FALSE]

(* waitForSeek: the promise is resolved by the 'seeked' listener or by the *)
(* timer set with setTimeout, whichever runs first                         *)
waitForSeek == [listener |-> TRUE, timer |-> TRUE]

NewFlow(id) == [id |-> id, screens |-> <<>>]

Files(lib) ==
    CASE lib = "general"  -> GeneralVideos \cup {NotAVideo}
      [] lib = "scenario" -> ScenarioVideos \cup {NotAVideo}
      [] lib = "twotone"  -> TwoToneVideos \cup {NotAVideo}

InitWith(lib, n) ==
    /\ file \in Revisions
    /\ library = lib
    /\ videoUrl = NoVideo
    /\ videoLoaded = FALSE
    /\ flows = <<>>
    /\ screenshots = <<>>
    /\ isProcessing = FALSE
    /\ progress = 0
    /\ status = NoStatus
    /\ shown = "none"
    /\ seeking = NoSeek
    /\ seekedQueue = <<>>
    /\ stale = 0
    /\ canvas = "none"
    /\ pc = "idle"
    /\ wait = NoWait
    /\ timestamps = <<>>
    /\ i = 0
    /\ lastFrame = Null
    /\ lastCaptureTs = NEVER
    /\ currentFlow = NewFlow(FIRST_FLOW_ID)
    /\ allFlows = <<>>
    /\ captured = <<>>
    /\ changeBurst = FALSE
    /\ runsLeft = n
    /\ trace = <<>>
    /\ emitted = <<>>
    /\ timeouts = 0
    /\ prev = NoRun
    /\ saved = NoArchive

Init == InitWith("general", MaxRuns)

----------------------------------------------------------------------------
(* Upload.  The "Upload Video" button, the only way to open the file       *)
(* dialog of the hidden input, is rendered only while videoUrl is null.    *)

handleUpload(f) ==
    /\ videoUrl = NoVideo
    /\ f \in Files(library)
    /\ IF f.type # "video"
       THEN UNCHANGED vars
       ELSE /\ flows' = <<>>
            /\ screenshots' = <<>>
            /\ progress' = 0
            /\ status' = NoStatus
            /\ videoLoaded' = FALSE
            /\ videoUrl' = f
            /\ UNCHANGED <<file, library, saved, isProcessing, shown, seeking, seekedQueue, stale, canvas>>
            /\ UNCHANGED runVars

(* <video onLoadedMetadata={() => setVideoLoaded(true)}> *)
onLoadedMetadata ==
    /\ videoUrl # NoVideo
    /\ ~videoLoaded
    /\ videoLoaded' = TRUE
    /\ UNCHANGED <<file, library, saved, videoUrl, flows, screenshots, isProcessing, progress,
                   status, shown, seeking, seekedQueue, stale, canvas>>
    /\ UNCHANGED runVars

(* <video>: the element gets the data of the frame at its position without *)
(* a seek (it may never do so when only the metadata is preloaded)         *)
LoadedData ==
    /\ videoLoaded
    /\ shown = "none"
    /\ seeking = NoSeek
    /\ Len(videoUrl.frames) > 0
    /\ shown' = FrameAt(videoUrl, 0)
    /\ UNCHANGED <<file, library, saved, seeking, seekedQueue, stale, canvas>>
    /\ UNCHANGED uiVars
    /\ UNCHANGED runVars

(* <video>: the seek in progress completes: the element presents the frame *)
(* at the target and queues a 'seeked' event                               *)
SeekCompletes ==
    /\ seeking # NoSeek
    /\ shown' = FrameAt(videoUrl, seeking)
    /\ seekedQueue' = Append(seekedQueue, seeking)
    /\ seeking' = NoSeek
    /\ UNCHANGED <<file, library, saved, stale, canvas>>
    /\ UNCHANGED uiVars
    /\ UNCHANGED runVars

----------------------------------------------------------------------------
(* processVideo *)

(* faulty variant: the last flow is not appended *)
flush_Never(af, cf) == af

(* faulty variant: the last flow is appended without the test *)
flush_Always(af, cf) == Append(af, cf)

(* if (currentFlow.screens.length) allFlows.push(currentFlow) *)
flush(af, cf) == IF Len(cf.screens) > 0 THEN Append(af, cf) ELSE af

(* faulty variant: the first frame is not captured *)
ruleApp_SkipFirst(lf, diff) ==
    [capture |-> (lf # Null) /\ (GT(diff, HARD) \/ GT(diff, SOFT)),
     newFlow |-> (lf # Null) /\ GT(diff, HARD)]

(* faulty variant: a hard change is captured without a flow boundary *)
ruleApp_NoBoundary(lf, diff) ==
    [capture |-> (lf = Null) \/ GT(diff, HARD) \/ GT(diff, SOFT),
     newFlow |-> FALSE]

(* faulty variant: the flow boundary is taken at the soft threshold *)
ruleApp_SoftBoundary(lf, diff) ==
    [capture |-> (lf = Null) \/ GT(diff, HARD) \/ GT(diff, SOFT),
     newFlow |-> (lf # Null) /\ GT(diff, SOFT)]

(* the decision of one iteration, App.jsx *)
ruleApp(lf, diff) ==
    [capture |-> (lf = Null) \/ GT(diff, HARD) \/ GT(diff, SOFT),
     newFlow |-> (lf # Null) /\ GT(diff, HARD)]

(* faulty variant: no capture at the end of a burst *)
ruleBurst_NoEnd(lf, diff, cb) ==
    [capture |-> \/ lf = Null
                 \/ GT(diff, HARD)
                 \/ (GT(diff, SOFT) /\ ~cb),
     newFlow |-> FALSE]

(* the decision of one iteration, part_000 and part_001 *)
ruleBurst(lf, diff, cb) ==
    [capture |-> \/ lf = Null
                 \/ GT(diff, HARD)
                 \/ (GT(diff, SOFT) /\ ~cb)
                 \/ (LT(diff, LOW) /\ cb),
     newFlow |-> FALSE]

(* faulty variant: one threshold, changeBurst = diff > 3 *)
burstUpdate_OneThreshold(diff, cb) == GT(diff, SOFT)

(* if (diff > 3) changeBurst = true; if (diff < 2) changeBurst = false *)
burstUpdate(diff, cb) ==
    IF GT(diff, SOFT) THEN TRUE ELSE IF LT(diff, LOW) THEN FALSE ELSE cb

(* faulty variant: the time step is taken for the gap *)
gate_StepAsGap(capture, ts, lts) == capture /\ ts - lts > STEP

(* capture && ts - lastCaptureTs > 0.3 *)
gate(capture, ts, lts) == capture /\ ts - lts > MIN_GAP

(* faulty variant: the id is not incremented *)
nextFlow_SameId(cf) == NewFlow(cf.id)

(* currentFlow = { id: currentFlow.id + 1, screens: [] } *)
nextFlow(cf) == NewFlow(cf.id + 1)

(* faulty variant: the baseline is never set *)
nextLastFrame_Never(emit, gray, lf) == lf

(* faulty variant: the baseline follows every sample *)
nextLastFrame_Always(emit, gray, lf) == gray

(* lastFrame = gray, inside the if of an emitted capture *)
nextLastFrame(emit, gray, lf) == IF emit THEN gray ELSE lf

(* faulty variant: unshift instead of push *)
push_Front(screens, s) == <<s>> \o screens

(* currentFlow.screens.push(...) / captured.push(...) *)
push(screens, s) == Append(screens, s)

(* The rest of processVideo from the top of the loop with index k: issue   *)
(* the next seek and suspend, or leave the loop and publish the result.    *)
(* When the step is the click (pc = "idle") the state set at the top of    *)
(* processVideo is still visible at the first await.                       *)
Continue(k, lf, lts, cf, af, cap, cb) ==
    /\ i' = k
    /\ lastFrame' = lf
    /\ lastCaptureTs' = lts
    /\ changeBurst' = cb
    /\ currentFlow' = cf
    /\ captured' = cap
    /\ IF k < Len(timestamps')
       THEN /\ seeking' = timestamps'[k + 1]
            /\ stale' = Len(seekedQueue')
            /\ wait' = waitForSeek
            /\ pc' = "wait"
            /\ allFlows' = af
            /\ isProcessing' = IF pc = "idle" THEN TRUE ELSE isProcessing
            /\ status' = IF pc = "idle" THEN Analyzing ELSE status
            /\ flows' = IF pc = "idle" THEN <<>> ELSE flows
            /\ screenshots' = IF pc = "idle" THEN <<>> ELSE screenshots
       ELSE /\ allFlows' = flush(af, cf)
            /\ flows' = IF HasFlows(file) THEN allFlows' ELSE <<>>
            /\ screenshots' = IF HasFlows(file) THEN <<>> ELSE cap
            /\ status' = Captured(IF HasFlows(file) THEN Len(allFlows') ELSE Len(cap))
            /\ isProcessing' = FALSE
            /\ seeking' = 0
            /\ stale' = Len(seekedQueue')
            /\ wait' = NoWait
            /\ pc' = "idle"

(* faulty variant: lastCaptureTs starts at the first timestamp *)
policyInit_ZeroTs(lf, lts, cb) == [lastFrame |-> Null, lastCaptureTs |-> 0, changeBurst |-> FALSE]

(* faulty variant: the policy state lives outside processVideo and is not  *)
(* set again                                                               *)
policyInit_Keep(lf, lts, cb) == [lastFrame |-> lf, lastCaptureTs |-> lts, changeBurst |-> cb]

(* let lastFrame = null; let lastCaptureTs = -10; let changeBurst = false: *)
(* locals of processVideo, whatever an earlier run left (lf, lts, cb)      *)
policyInit(lf, lts, cb) == [lastFrame |-> Null, lastCaptureTs |-> NEVER, changeBurst |-> FALSE]

(* faulty variant: the button is never disabled *)
disabled_Never == FALSE

(* <button onClick={processVideo} disabled={isProcessing}> *)
disabled == isProcessing

(* click on "Capture Screenshots": processVideo up to its first await *)
processVideo ==
    /\ videoUrl # NoVideo
    /\ videoLoaded
    /\ ~disabled
    /\ runsLeft > 0
    /\ runsLeft' = runsLeft - 1
    /\ progress' = 0
    /\ canvas' = "none"
    /\ timestamps' = Timestamps(videoUrl.duration)
    /\ trace' = <<>>
    /\ emitted' = <<>>
    /\ timeouts' = 0
    /\ prev' = IF status.kind = "captured"
               THEN [ran |-> TRUE, trace |-> trace, emitted |-> emitted,
                     flows |-> flows, screenshots |-> screenshots]
               ELSE NoRun
    /\ saved' = NoArchive
    /\ UNCHANGED <<file, library, videoUrl, videoLoaded, shown, seekedQueue>>
    /\ LET p == policyInit(lastFrame, lastCaptureTs, changeBurst)
       IN  Continue(0, p.lastFrame, p.lastCaptureTs, NewFlow(FIRST_FLOW_ID),
                    <<>>, <<>>, p.changeBurst)

(* processVideo from the resumption after await waitForSeek(video) to the  *)
(* next await or to the end; by = what resolved the promise                *)
Resume(by) ==
    LET ts     == timestamps[i + 1]
        drawn  == IF shown # "none" THEN shown ELSE canvas
        gray   == toGray(drawn)
        diff   == IF lastFrame = Null THEN Zero ELSE diffScore(lastFrame, gray)
        rule   == IF HasFlows(file) THEN ruleApp(lastFrame, diff)
                  ELSE ruleBurst(lastFrame, diff, changeBurst)
        af     == IF rule.newFlow THEN Append(allFlows, currentFlow) ELSE allFlows
        cf     == IF rule.newFlow THEN nextFlow(currentFlow) ELSE currentFlow
        cb     == IF HasFlows(file) THEN changeBurst ELSE burstUpdate(diff, changeBurst)
        emit   == gate(rule.capture, ts, lastCaptureTs)
        screen == MkScreen(ts, shown)
        cf2    == IF emit /\ HasFlows(file)
                  THEN [cf EXCEPT !.screens = push(cf.screens, screen)] ELSE cf
        cap2   == IF emit /\ ~HasFlows(file) THEN push(captured, screen) ELSE captured
    IN  /\ pc = "wait"
        /\ canvas' = drawn
        /\ trace' = Append(trace, [ts |-> ts, img |-> drawn, diff |-> diff,
                                    capture |-> rule.capture, newFlow |-> rule.newFlow,
                                    emit |-> emit])
        /\ emitted' = IF emit THEN Append(emitted, screen) ELSE emitted
        /\ timeouts' = IF by = "timeout" THEN timeouts + 1 ELSE timeouts
        /\ progress' = IF HasProgress(file) THEN Percent(i, Len(timestamps)) ELSE progress
        /\ timestamps' = timestamps
        /\ runsLeft' = runsLeft
        /\ prev' = IF prev.ran /\ i + 1 <= Len(prev.trace) /\ prev.trace[i + 1].img = drawn
                   THEN prev ELSE NoRun
        /\ Continue(i + 1,
                    nextLastFrame(emit, gray, lastFrame),
                    IF emit THEN ts ELSE lastCaptureTs,
                    cf2, af, cap2, cb)
        /\ UNCHANGED <<file, library, saved, videoUrl, videoLoaded, shown>>

(* The timer of the pending wait fires.  It fires 200 ms (250 ms) after    *)
(* the wait began, hence after the events that were queued by then.        *)
Timeout ==
    /\ pc = "wait"
    /\ wait.timer
    /\ stale = 0
    /\ UNCHANGED seekedQueue
    /\ Resume("timeout")

(* the oldest queued 'seeked' event is dispatched to the listeners *)
Seeked ==
    /\ seekedQueue # <<>>
    /\ seekedQueue' = Tail(seekedQueue)
    /\ IF pc = "wait" /\ wait.listener
       THEN Resume("seeked")
       ELSE /\ stale' = IF stale > 0 THEN stale - 1 ELSE 0
            /\ UNCHANGED <<file, library, saved, shown, seeking, canvas>>
            /\ UNCHANGED uiVars
            /\ UNCHANGED runVars

----------------------------------------------------------------------------
(* ZIP export.  A string is the sequence of its pieces, each piece a       *)
(* literal of the source or one character of an interpolated value.        *)

digit(n) ==
    CASE n = 0 -> "0" [] n = 1 -> "1" [] n = 2 -> "2" [] n = 3 -> "3" [] n = 4 -> "4"
      [] n = 5 -> "5" [] n = 6 -> "6" [] n = 7 -> "7" [] n = 8 -> "8" [] n = 9 -> "9"

(* a number interpolated into a template literal *)
RECURSIVE toString(_)
toString(n) == IF n < 10 THEN <<digit(n)>> ELSE toString(n \div 10) \o <<digit(n % 10)>>

(* the string that fmt returned: `${minutes}:${seconds, two digits}` *)
timeString(ft) == toString(ft[1]) \o <<":">> \o <<digit(ft[2]), digit(ft[3])>>

(* String.prototype.replace with a string pattern: the first occurrence *)
RECURSIVE replace(_, _, _)
replace(str, a, b) ==
    IF str = <<>> THEN <<>>
    ELSE IF Head(str) = a THEN <<b>> \o Tail(str)
    ELSE <<Head(str)>> \o replace(Tail(str), a, b)

(* String.prototype.padStart *)
RECURSIVE padStart(_, _, _)
padStart(str, n, c) == IF Len(str) >= n THEN str ELSE padStart(<<c>> \o str, n, c)

(* `flow_${flow.id}` *)
folderName(id) == <<"flow_">> \o toString(id)

(* faulty variant: the file name without the position in the flow *)
stepName_NoIndex(k, s) ==
    <<"step_">> \o <<"_">> \o replace(timeString(s.formattedTime), ":", "-") \o <<".jpg">>

(* `step_${i + 1}_${s.formattedTime.replace(':', '-')}.jpg`; k = i + 1 *)
stepName(k, s) ==
    <<"step_">> \o toString(k) \o <<"_">>
        \o replace(timeString(s.formattedTime), ":", "-") \o <<".jpg">>

(* `shot_${String(i + 1).padStart(3, '0')}_${shot.formattedTime.replace(':', '-')}.jpg` *)
shotName(k, s) ==
    <<"shot_">> \o padStart(toString(k), 3, "0") \o <<"_">>
        \o replace(timeString(s.formattedTime), ":", "-") \o <<".jpg">>

(* s.dataUrl.split(',')[1] *)
base64Of(dataUrl) == dataUrl[2]

(* screens.forEach((s, i) => folder.file(name, data, { base64: true })):   *)
(* the calls of folder.file, in order                                      *)
stepCalls(folder, screens) ==
    [k \in DOMAIN screens |->
        [path |-> <<folder, stepName(k, screens[k])>>, data |-> base64Of(screens[k].dataUrl)]]

(* screenshots.forEach((shot, i) => folder.file(...)) *)
shotCalls(folder, screens) ==
    [k \in DOMAIN screens |->
        [path |-> <<folder, shotName(k, screens[k])>>, data |-> base64Of(screens[k].dataUrl)]]

(* flows.forEach((flow) => { const folder = zip.folder(...); ... }) *)
RECURSIVE flowCalls(_)
flowCalls(fl) ==
    IF fl = <<>> THEN <<>>
    ELSE stepCalls(folderName(Head(fl).id), Head(fl).screens) \o flowCalls(Tail(fl))

(* JSZip: the files of the archive by path; a call of file() with the path *)
(* of an earlier call replaces the earlier file                            *)
zipFiles(calls) ==
    [p \in {calls[k].path : k \in DOMAIN calls} |->
        calls[CHOOSE k \in DOMAIN calls :
                 /\ calls[k].path = p
                 /\ \A j \in DOMAIN calls : calls[j].path = p => j <= k].data]

(* click on "Download ZIP", rendered when there is a result *)
downloadZip ==
    /\ videoUrl # NoVideo
    /\ videoLoaded
    /\ IF HasFlows(file) THEN Len(flows) > 0 ELSE Len(screenshots) > 0
    /\ saved' = IF HasFlows(file)
                THEN [name    |-> "ui_flows.zip",
                      folders |-> {folderName(flows[k].id) : k \in DOMAIN flows},
                      files   |-> zipFiles(flowCalls(flows))]
                ELSE [name    |-> "video_screenshots.zip",
                      folders |-> {<<"screenshots">>},
                      files   |-> zipFiles(shotCalls(<<"screenshots">>, screenshots))]
    /\ UNCHANGED <<file, library, shown, seeking, seekedQueue, stale, canvas>>
    /\ UNCHANGED uiVars
    /\ UNCHANGED runVars

Next ==
    \/ \E f \in Files(library) : handleUpload(f)
    \/ onLoadedMetadata
    \/ LoadedData
    \/ SeekCompletes
    \/ processVideo
    \/ Timeout
    \/ Seeked
    \/ downloadZip

Spec == Init /\ [][Next]_vars

(* the scenarios of the specification, one run each *)
ScenarioInit == InitWith("scenario", 1)
ScenarioSpec == ScenarioInit /\ [][Next]_vars

(* The event loop runs every queued task: the timer of a pending wait      *)
(* fires and a queued 'seeked' event is dispatched.  Nothing makes a seek  *)
(* complete.                                                               *)
FairInit == InitWith("twotone", 1)
FairSpec == FairInit /\ [][Next]_vars /\ WF_vars(Timeout) /\ WF_vars(Seeked)

----------------------------------------------------------------------------
(* Properties *)

(* a run has finished and its result is published *)
Finished == pc = "idle" /\ status.kind = "captured"

Times(screens) == [k \in DOMAIN screens |-> screens[k].timestamp]

NonEmptyFlows(fl) == \A k \in DOMAIN fl : Len(fl[k].screens) > 0

(* C3: no flow without captures is ever in the list of flows of a run,     *)
(* neither while the run collects the flows (a flow is appended at a flow  *)
(* boundary only when it holds a capture) nor in the published result.     *)
C3_NoEmptyFlow == NonEmptyFlows(allFlows) /\ NonEmptyFlows(flows)

C3_Witness ==
    /\ Finished
    /\ Len(flows) >= 2
    /\ \E k \in DOMAIN trace : trace[k].capture /\ GT(trace[k].diff, HARD)

(* C4: the timestamps of two consecutive emitted captures of a run differ  *)
(* by more than minCaptureGap.                                             *)
C4_GapInvariant ==
    \A k \in 1..(Len(emitted) - 1) :
        emitted[k + 1].timestamp - emitted[k].timestamp > MIN_GAP

C4_Witness == Finished /\ Len(emitted) >= 3

Increasing(ts) == \A k \in 1..(Len(ts) - 1) : ts[k] < ts[k + 1]

(* C5: in the published flows the capture timestamps of each flow increase *)
(* strictly, and the first capture of each flow is not earlier than the    *)
(* last capture of the flow before it.                                     *)
C5_FlowOrdering ==
    /\ \A k \in DOMAIN flows : Increasing(Times(flows[k].screens))
    /\ \A k \in 1..(Len(flows) - 1) :
          /\ Len(flows[k].screens) > 0
          /\ Len(flows[k + 1].screens) > 0
          /\ flows[k + 1].screens[1].timestamp
               >= flows[k].screens[Len(flows[k].screens)].timestamp

C5_Witness ==
    /\ Finished
    /\ Len(flows) >= 2
    /\ \E k \in DOMAIN flows : Len(flows[k].screens) >= 2

(* C7: the ids of the published flows start at 1 and increase strictly.    *)
C7_FlowIds ==
    /\ Len(flows) > 0 => flows[1].id = FIRST_FLOW_ID
    /\ \A k \in 1..(Len(flows) - 1) : flows[k].id < flows[k + 1].id

C7_Witness == Finished /\ Len(flows) >= 3

Images(tr) == [k \in DOMAIN tr |-> tr[k].img]

FlatResult == IF HasFlows(file) THEN <<>> ELSE emitted

(* the number the final status reports *)
Reported == IF HasFlows(file) THEN Len(flows) ELSE Len(screenshots)

(* the frame source gave the same luma buffer at every tick of the run *)
ConstantLuma == \A k \in DOMAIN trace : toGray(trace[k].img) = toGray(trace[1].img)

(* C6: a finished run on a video of positive duration whose frames all     *)
(* reduce to the same luma buffer has exactly one capture, taken at the    *)
(* first timestamp, and exactly one flow (in part_000 and part_001: a list *)
(* of one capture).                                                        *)
C6_ScenarioA ==
    (Finished /\ Len(timestamps) > 0 /\ ConstantLuma) =>
        /\ Times(emitted) = <<timestamps[1]>>
        /\ screenshots = FlatResult
        /\ HasFlows(file) =>
              flows = <<[id |-> FIRST_FLOW_ID, screens |-> emitted]>>

C6_Witness == Finished /\ Len(trace) >= 3 /\ ConstantLuma

(* C8: a run on a video of duration <= 0 samples no timestamp and ends at  *)
(* once with an empty result and the final status.                         *)
C8_ZeroDuration ==
    (videoUrl.type = "video" /\ videoUrl.duration <= 0 /\ runsLeft < MaxRuns) =>
        /\ Finished
        /\ ~isProcessing
        /\ timestamps = <<>>
        /\ trace = <<>>
        /\ emitted = <<>>
        /\ flows = <<>>
        /\ screenshots = <<>>
        /\ status = Captured(0)

C8_Witness == videoUrl.type = "video" /\ videoUrl.duration <= 0 /\ runsLeft < MaxRuns

(* every wait of the run ended by its timeout *)
AllTimedOut == Len(timestamps) > 0 /\ timeouts = Len(timestamps)

(* the video never presented a frame during the run *)
NeverReady == \A k \in DOMAIN trace : trace[k].img = "none"

(* C9 as claimed: a run whose frame source never becomes ready (every wait *)
(* ends by its timeout) produces zero flows and a status.                  *)
C9_ZeroFlows ==
    (Finished /\ AllTimedOut /\ NeverReady) =>
        /\ flows = <<>>
        /\ screenshots = <<>>
        /\ status.kind = "captured"

(* C9 amended: a run in which every wait ends by its timeout does not      *)
(* fail: it processes every timestamp with the frame that is available,    *)
(* captures the first timestamp and ends with the final status; when the   *)
(* video never presents a frame, that capture is the only one and, in      *)
(* App.jsx, the result is one flow.                                        *)
C9_BestEffort ==
    (Finished /\ AllTimedOut) =>
        /\ ~isProcessing
        /\ Len(trace) = Len(timestamps)
        /\ Len(emitted) >= 1
        /\ emitted[1].timestamp = timestamps[1]
        /\ status = Captured(Reported)
        /\ HasFlows(file) => Len(flows) >= 1
        /\ NeverReady =>
              /\ Len(emitted) = 1
              /\ emitted[1].dataUrl = exportFrame("none")
              /\ HasFlows(file) => Len(flows) = 1

C9_Witness == Finished /\ AllTimedOut /\ NeverReady /\ Len(timestamps) >= 3

(* C10: every wait for a frame ends; a wait that ends by its timeout is    *)
(* followed by the rest of the iteration and by the next timestamp; every  *)
(* run that was started finishes with isProcessing false.                  *)
C10_Termination ==
    /\ (pc = "wait") ~> (~isProcessing /\ Finished)
    /\ [][timeouts' = timeouts + 1 =>
            /\ i' = i + 1
            /\ Len(trace') = Len(trace) + 1
            /\ IF i' < Len(timestamps) THEN pc' = "wait" /\ isProcessing'
               ELSE pc' = "idle" /\ ~isProcessing']_vars

C10_Witness ==
    /\ Finished
    /\ timeouts >= 1
    /\ timeouts < Len(timestamps)
    /\ Len(trace) = Len(timestamps)

(* Scenario B: the frame source gave the frames of ScenarioB *)
ScnB == Finished /\ videoUrl = ScenarioB /\ Images(trace) = ScenarioB.frames

TwoFlows ==
    /\ Len(emitted) = 2
    /\ flows = <<[id |-> 1, screens |-> <<emitted[1]>>],
                 [id |-> 2, screens |-> <<emitted[2]>>]>>

(* C1 as claimed: in scenario B the captures are exactly those at t = 0    *)
(* and at t = 2.0, the first in flow 1 and the second in flow 2.           *)
C1_ScenarioB ==
    ScnB =>
        /\ Times(emitted) = <<0, 20>>
        /\ HasFlows(file) => TwoFlows

(* C1 amended: in scenario B, App.jsx captures exactly t = 0 and t = 2.0,  *)
(* the first in flow 1 and the second in flow 2; part_000 and part_001     *)
(* capture t = 0, t = 2.0 and, as the end of the burst that the change     *)
(* opened, the next tick t = 2.4, in one flat list.                        *)
C1_ScenarioB_Amended ==
    ScnB =>
        IF HasFlows(file)
        THEN Times(emitted) = <<0, 20>> /\ TwoFlows
        ELSE Times(emitted) = <<0, 20, 24>> /\ screenshots = emitted

C1_Witness == ScnB /\ HasFlows(file) /\ Len(flows) = 2

(* Scenario C: the scores of the ticks after the first alternate 4, 1, ... *)
Sawtooth ==
    /\ Len(timestamps) = 10
    /\ Len(trace) = 10
    /\ \A k \in 2..10 :
          trace[k].diff.num = (IF k % 2 = 0 THEN 4 ELSE 1) * trace[k].diff.den

(* C2 as claimed: on the sawtooth the ticks that score 4 are captured and  *)
(* the ticks that score 1 are not, and the captures are more than          *)
(* minCaptureGap apart.                                                    *)
C2_ScenarioC ==
    (Finished /\ Sawtooth) =>
        /\ \A k \in 2..10 : trace[k].emit = (k % 2 = 0)
        /\ C4_GapInvariant

(* C2 amended: on the sawtooth App.jsx captures the ticks that score 4 and *)
(* not those that score 1; part_000 and part_001 capture every tick, a     *)
(* tick that scores 4 as the start of a burst and a tick that scores 1 as  *)
(* its end; in every revision the captures are more than minCaptureGap     *)
(* apart.                                                                  *)
C2_ScenarioC_Amended ==
    (Finished /\ Sawtooth) =>
        /\ \A k \in 2..10 : trace[k].emit = (~HasFlows(file) \/ k % 2 = 0)
        /\ \A k \in 1..(Len(emitted) - 1) :
              emitted[k + 1].timestamp - emitted[k].timestamp > MIN_GAP

C2_Witness == Finished /\ Sawtooth /\ ~HasFlows(file) /\ Len(emitted) = 10

----------------------------------------------------------------------------
(* Properties of the driver, the capture policy and the archive *)

(* a step of the program that stops the run between two iterations: the   *)
(* run is over, the pending timestamp was not processed and nothing was    *)
(* published                                                               *)
Stop ==
    /\ Next
    /\ pc = "wait"
    /\ pc' = "idle"
    /\ Len(trace') = Len(trace)
    /\ flows' = flows
    /\ screenshots' = screenshots
    /\ status' = status

(* C11: a run in progress can be told to stop between iterations (as by    *)
(* the upload of another video): whenever the run is suspended between two *)
(* iterations a step is possible after which it processes no further       *)
(* timestamp and publishes neither flows nor status.                       *)
C11_Cancellation == (pc = "wait") => ENABLED Stop

(* the run has drawn the same images as the run before it *)
SameFrames == prev.ran /\ \A k \in DOMAIN trace : trace[k].img = prev.trace[k].img

(* C12: a run on the video of the run before it that draws the same images *)
(* takes the same decisions tick by tick and publishes the same captures   *)
(* and flows; every run starts from the initial policy state, whatever the *)
(* run before it left.                                                     *)
C12_Determinism ==
    /\ SameFrames => \A k \in DOMAIN trace : trace[k] = prev.trace[k]
    /\ (Finished /\ SameFrames) =>
          /\ emitted = prev.emitted
          /\ flows = prev.flows
          /\ screenshots = prev.screenshots
    /\ (pc = "wait" /\ i = 0) =>
          /\ lastFrame = Null
          /\ lastCaptureTs = NEVER
          /\ changeBurst = FALSE
          /\ currentFlow = NewFlow(FIRST_FLOW_ID)
          /\ allFlows = <<>>
          /\ captured = <<>>

C12_Witness == Finished /\ SameFrames /\ Len(trace) >= 3 /\ Len(emitted) >= 2

(* C13: in the revisions with a progress bar, after each sampled timestamp *)
(* the progress is completedSteps / totalSteps (as a rounded percentage),  *)
(* completedSteps counting the timestamps processed so far, the current    *)
(* one included; hence it never decreases during a run and is 100 after    *)
(* the last timestamp.                                                     *)
C13_Progress ==
    (HasProgress(file) /\ Len(trace) > 0) =>
        /\ progress = Percent(Len(trace), Len(timestamps))
        /\ Finished => progress = 100

RECURSIVE TotalCaptures(_)
TotalCaptures(fl) == IF fl = <<>> THEN 0 ELSE Len(Head(fl).screens) + TotalCaptures(Tail(fl))

(* the path flow_{id}/step_{index}_{M-SS}.jpg of the capture at position   *)
(* index of flow id                                                        *)
StepPath(id, index, s) ==
    << <<"flow_">> \o toString(id),
       <<"step_">> \o toString(index) \o <<"_">> \o toString(s.formattedTime[1])
           \o <<"-", digit(s.formattedTime[2]), digit(s.formattedTime[3]), ".jpg">> >>

FilesIn(ar, folder) == {p \in DOMAIN ar.files : p[1] = folder}

(* archive ar has the layout of the flow list fl *)
Layout(fl, ar) ==
    /\ ar.folders = {<<"flow_">> \o toString(fl[k].id) : k \in DOMAIN fl}
    /\ Cardinality(ar.folders) = Len(fl)
    /\ DOMAIN ar.files =
          {StepPath(fl[k].id, j, fl[k].screens[j]) : <<k, j>> \in
              {<<k, j>> \in (DOMAIN fl) \X (1..TotalCaptures(fl)) : j <= Len(fl[k].screens)}}
    /\ Cardinality(DOMAIN ar.files) = TotalCaptures(fl)
    /\ \A k \in DOMAIN fl :
          /\ Cardinality(FilesIn(ar, <<"flow_">> \o toString(fl[k].id))) = Len(fl[k].screens)
          /\ \A j \in DOMAIN fl[k].screens :
                ar.files[StepPath(fl[k].id, j, fl[k].screens[j])] = fl[k].screens[j].dataUrl[2]

(* C14: the archive made from a flow list holds one directory flow_{id}    *)
(* per flow and, in it, one file step_{index}_{time}.jpg per capture, with *)
(* index the 1-based position in the flow; the number of files is the      *)
(* number of captures, no two captures share a path and each file holds    *)
(* the image of its capture.                                               *)
C14_ArchiveLayout == (HasFlows(file) /\ saved # NoArchive) => Layout(flows, saved)

(* a result of two flows with 2 and 3 captures was archived: 5 files, 2 in *)
(* flow_1 and 3 in flow_2                                                  *)
C14_Witness ==
    /\ HasFlows(file)
    /\ Len(flows) = 2
    /\ Len(flows[1].screens) = 2
    /\ Len(flows[2].screens) = 3
    /\ saved.name = "ui_flows.zip"
    /\ Cardinality(DOMAIN saved.files) = 5
    /\ Cardinality(FilesIn(saved, <<"flow_", "1">>)) = 2
    /\ Cardinality(FilesIn(saved, <<"flow_", "2">>)) = 3

(* the step processes a timestamp *)
Iteration == Len(trace') = Len(trace) + 1

(* C15: a sample that scores more than HARD against the baseline is        *)
(* captured; in App.jsx it starts a new flow: the current flow, which      *)
(* holds a capture, is appended to the list of flows, a flow with the next *)
(* id is opened and the capture is its first; a sample that scores HARD or *)
(* less starts no flow.                                                    *)
C15_HardCut ==
    [][Iteration =>
        LET t == trace'[Len(trace')]
        IN  /\ GT(t.diff, HARD) => t.emit
            /\ HasFlows(file) =>
                 IF GT(t.diff, HARD)
                 THEN /\ Len(currentFlow.screens) > 0
                      /\ Len(allFlows') >= Len(allFlows) + 1
                      /\ SubSeq(allFlows', 1, Len(allFlows) + 1) = Append(allFlows, currentFlow)
                      /\ currentFlow' = [id      |-> currentFlow.id + 1,
                                         screens |-> <<MkScreen(t.ts, shown)>>]
                      /\ emitted' = Append(emitted, MkScreen(t.ts, shown))
                 ELSE /\ currentFlow'.id = currentFlow.id
                      /\ allFlows' \in {allFlows, Append(allFlows, currentFlow')}]_vars

C15_Witness ==
    /\ Finished
    /\ HasFlows(file)
    /\ Len(flows) = 2
    /\ Len(flows[1].screens) = 2
    /\ \E k \in DOMAIN trace :
          /\ GT(trace[k].diff, HARD)
          /\ flows[2].screens[1].timestamp = trace[k].ts

(* The burst state of the capture policy after the first k samples of the *)
(* run: Burst (TRUE) after a score above SOFT, Steady (FALSE) after a      *)
(* score below LOW, otherwise as before; Steady after the first frame.     *)
RECURSIVE BurstAfter(_, _)
BurstAfter(tr, k) ==
    IF k = 0 THEN FALSE
    ELSE IF GT(tr[k].diff, SOFT) THEN TRUE
    ELSE IF LT(tr[k].diff, LOW) THEN FALSE
    ELSE BurstAfter(tr, k - 1)

(* SOFT < d <= HARD *)
Moderate(d) == GT(d, SOFT) /\ ~GT(d, HARD)

(* C16: a sample with SOFT < d <= HARD is captured when the policy is not  *)
(* in the Burst state and is not captured when it is: a sustained moderate *)
(* change fires once, at its start.                                        *)
C16_BurstOnset ==
    \A k \in DOMAIN trace :
        Moderate(trace[k].diff) => (trace[k].emit <=> ~BurstAfter(trace, k - 1))

(* C17: a sample after the first with d < LOW is captured when the policy  *)
(* is in the Burst state, without starting a new flow, and the state is    *)
(* Steady after it; it is not captured when the policy is in the Steady    *)
(* state, so stable content does not fire again.                           *)
C17_BurstSettle ==
    \A k \in DOMAIN trace :
        (k >= 2 /\ LT(trace[k].diff, LOW)) =>
            /\ trace[k].emit <=> BurstAfter(trace, k - 1)
            /\ ~trace[k].newFlow
            /\ (k = Len(trace) /\ ~HasFlows(file)) => changeBurst = FALSE

(* LOW <= d <= SOFT *)
DeadZone(d) == ~LT(d, LOW) /\ ~GT(d, SOFT)

(* C18: a sample with LOW <= d <= SOFT is not captured and, in part_000    *)
(* and part_001, leaves changeBurst as it was; changeBurst is true after   *)
(* every sample with d > SOFT (also with d > HARD) and false after every   *)
(* sample with d < LOW, captured or not.                                   *)
C18_DeadZone ==
    [][Iteration =>
        LET t == trace'[Len(trace')]
        IN  /\ (lastFrame # Null /\ DeadZone(t.diff)) => (~t.capture /\ ~t.emit)
            /\ ~HasFlows(file) =>
                  /\ DeadZone(t.diff) => changeBurst' = changeBurst
                  /\ GT(t.diff, SOFT) => changeBurst' = TRUE
                  /\ LT(t.diff, LOW) => changeBurst' = FALSE]_vars

(* a burst was opened and the next sample fell in the dead zone *)
C18_Witness ==
    /\ ~HasFlows(file)
    /\ Len(trace) = 3
    /\ GT(trace[2].diff, SOFT)
    /\ DeadZone(trace[3].diff)
    /\ ~trace[3].emit
    /\ changeBurst

(* the last sample before sample k that was emitted *)
LastEmitBefore(tr, k) ==
    CHOOSE j \in 1..(k - 1) : tr[j].emit /\ \A m \in (j + 1)..(k - 1) : ~tr[m].emit

(* C19: lastFrame and lastCaptureTs change only in an iteration that emits *)
(* a capture, and then to the luma buffer and the timestamp of the current *)
(* sample; an iteration that emits nothing, and every step between two     *)
(* iterations, leaves both unchanged; so the score of every sample after   *)
(* the first is taken against the most recent emitted capture.             *)
C19_BaselineUpdate ==
    /\ [][IF Iteration
          THEN LET t == trace'[Len(trace')]
               IN  IF t.emit
                   THEN lastFrame' = toGray(t.img) /\ lastCaptureTs' = t.ts
                   ELSE lastFrame' = lastFrame /\ lastCaptureTs' = lastCaptureTs
          ELSE runsLeft' = runsLeft =>
                   (lastFrame' = lastFrame /\ lastCaptureTs' = lastCaptureTs)]_vars
    /\ [](\A k \in DOMAIN trace :
             k >= 2 =>
                /\ \E j \in 1..(k - 1) : trace[j].emit
                /\ trace[k].diff =
                      diffScore(toGray(trace[LastEmitBefore(trace, k)].img), toGray(trace[k].img)))

(* a sample was passed over and the next one was captured, scored against  *)
(* the capture before the passed-over sample                               *)
C19_Witness ==
    /\ Len(trace) = 3
    /\ trace[1].emit
    /\ ~trace[2].emit
    /\ trace[2].img # trace[1].img
    /\ trace[3].emit
    /\ lastCaptureTs = trace[3].ts
    /\ lastFrame = toGray(trace[3].img)

(* C20: at most one timestamp is in process at any instant.  While a run   *)
(* is suspended exactly one wait is pending, for the timestamp with index  *)
(* i, and the timestamps before it have been processed, each once and in   *)
(* increasing order; an iteration starts from that wait only and moves to  *)
(* the next index; a run starts only when no run is in progress, so the    *)
(* policy state belongs to one run at a time.                              *)
C20_Sequential ==
    /\ [](/\ pc \in {"idle", "wait"}
          /\ isProcessing <=> pc = "wait"
          /\ pc = "wait" => (i < Len(timestamps) /\ wait = waitForSeek
                             /\ seeking \in {NoSeek, timestamps[i + 1]})
          /\ Len(trace) = i
          /\ Increasing(timestamps)
          /\ \A k \in DOMAIN trace : trace[k].ts = timestamps[k]
          /\ Finished => Len(trace) = Len(timestamps))
    /\ [][/\ Iteration => (pc = "wait" /\ isProcessing /\ i' = i + 1
                           /\ trace'[Len(trace')].ts = timestamps[i + 1]
                           /\ timestamps' = timestamps)
          /\ runsLeft' # runsLeft => (pc = "idle" /\ ~isProcessing /\ i' = 0 /\ trace' = <<>>)
          /\ i' # i => (Iteration \/ runsLeft' # runsLeft)]_vars

(* the second run of a session is suspended at its third timestamp *)
C20_Witness == prev.ran /\ pc = "wait" /\ i = 2 /\ Len(timestamps) = 3 /\ isProcessing

(* the captures of a flow list, in order *)
RECURSIVE Flatten(_)
Flatten(fl) == IF fl = <<>> THEN <<>> ELSE Head(fl).screens \o Flatten(Tail(fl))

(* C21: every capture emitted in a run is in exactly one flow at exactly   *)
(* one position: during the run the closed flows followed by the current   *)
(* flow hold the emitted captures, each once and in order, and so do the   *)
(* published flows at the end (in part_000 and part_001: the flat list);   *)
(* no two emitted captures are the same.                                   *)
C21_Conservation ==
    /\ \A j, k \in DOMAIN emitted : j # k => emitted[j] # emitted[k]
    /\ IF HasFlows(file)
       THEN /\ pc = "wait" => Flatten(allFlows) \o currentFlow.screens = emitted
            /\ Finished => (Flatten(flows) = emitted /\ TotalCaptures(flows) = Len(emitted))
       ELSE /\ pc = "wait" => captured = emitted
            /\ Finished => screenshots = emitted

(* a run ended with three captures in two flows, the last flow appended by *)
(* the flush at the end                                                    *)
C21_Witness ==
    /\ Finished
    /\ HasFlows(file)
    /\ Len(emitted) = 3
    /\ Len(flows) = 2
    /\ flows[2] = currentFlow
    /\ Flatten(flows) = emitted

(* C22: with the time step 0.4 s and the minimum gap 0.3 s the gate never  *)
(* rejects a sample that the difference rule accepted: every sample with   *)
(* capture = true is emitted, the first one included, and a flow opened by *)
(* a hard change holds the capture that opened it.                         *)
C22_GateNeverRejects ==
    /\ \A k \in DOMAIN trace : trace[k].capture => trace[k].emit
    /\ \A k \in DOMAIN trace :
          (trace[k].newFlow /\ k = Len(trace)) =>
              (Len(currentFlow.screens) = 1 /\ currentFlow.screens[1].timestamp = trace[k].ts)
    /\ \A k \in 1..(Len(emitted) - 1) :
          emitted[k + 1].timestamp - emitted[k].timestamp >= STEP

(* captures at two consecutive timestamps, the second opening a flow *)
C22_Witness ==
    /\ HasFlows(file)
    /\ \E k \in DOMAIN trace :
          /\ k >= 2
          /\ trace[k - 1].emit
          /\ trace[k].newFlow
          /\ trace[k].emit
          /\ trace[k].ts - trace[k - 1].ts = STEP

(* C23: a wait that is ended by a 'seeked' event is ended by the event of  *)
(* the seek issued in the same iteration, the seek to the timestamp being  *)
(* processed; the event of an earlier seek that is dispatched late does    *)
(* not end the wait of a later timestamp.                                  *)
C23_OwnNotification ==
    [][(Iteration /\ timeouts' = timeouts) =>
          (seekedQueue # <<>> /\ Head(seekedQueue) = timestamps[i + 1])]_vars

====
